---- MODULE Spec2Model ----
(***************************************************************************)
(* A model of src/project-management/project-management.ts: the           *)
(* ProjectManagement facade, its paginated iteration engine               *)
(* (iteratePlatformApps) and its validation of list/create responses.     *)
(*                                                                         *)
(* JavaScript values are records [type, val]; a response is a record      *)
(* whose "kind" says whether it is null, a primitive or an object.        *)
(***************************************************************************)
EXTENDS Integers, Sequences, FiniteSets, TLC

VARIABLES
    workload,   \* what the calling program does (see Workloads)
    facade,     \* the ProjectManagement object (or the error its constructor threw)
    pages,      \* the server's listing, split into pages of appIds
    iters,      \* the iteration instances: the closure variables of iteratePlatformApps
    pending,    \* per instance: the pulls suspended on their request (the token each sent)
    reqs,       \* per instance: the list requests issued, in order
    yielded,    \* per instance: the batches returned with done=false, in order
    last,       \* per instance: the settlement of the most recently completed pull
    wire,       \* per instance: what the request handler delivered to that pull
    answers,    \* per instance: a summary of each settled request, in order
    clean,      \* per instance: every response so far was the server's own page
    overlapped, \* per instance: some pull began while another was suspended
    pulls,      \* per instance: number of next() calls made
    call,       \* the facade operation in progress or last completed
    certs,      \* the ShaCertificate objects the caller holds
    registered  \* the certificates registered on the server for the Android app

vars == <<workload, facade, pages, iters, pending, reqs, yielded, last, wire,
          answers, clean, overlapped, pulls, call, certs, registered>>

iterVars == <<iters, pending, reqs, yielded, last, wire, answers, clean, overlapped,
              pulls>>

(***************************************************************************)
(* Bounds of the model.                                                    *)
(***************************************************************************)
MaxApps == 3        \* entries in the server's listing
MaxPages == 2       \* pages the listing is split into
MaxIters == 2       \* iteration instances created
MaxInflight == 2    \* pulls of one instance suspended at the same time
MaxPulls == 3       \* next() calls on one instance
MaxEntries == 3     \* entries in a listAppMetadata() response
MaxCerts == 2       \* ShaCertificate objects held by the caller

(***************************************************************************)
(* JavaScript values.                                                      *)
(***************************************************************************)
Undefined == [type |-> "undefined", val |-> ""]
JsNull == [type |-> "null", val |-> ""]
Str(s) == [type |-> "string", val |-> s]
Num(s) == [type |-> "number", val |-> s]
Bool(s) == [type |-> "boolean", val |-> s]
Obj(s) == [type |-> "object", val |-> s]
Fun(s) == [type |-> "function", val |-> s]

\* !!v
Truthy(v) ==
    CASE v.type = "undefined" -> FALSE
      [] v.type = "null" -> FALSE
      [] v.type = "string" -> v.val # ""
      [] v.type = "number" -> v.val # "0"
      [] v.type = "boolean" -> v.val = "true"
      [] OTHER -> TRUE

isNonEmptyString(v) == v.type = "string" /\ v.val # ""

\* An "apps" field: a JavaScript value that may be an array of entries.
NoApps == [type |-> "undefined", val |-> "", items |-> <<>>]
AppsArray(items) == [type |-> "array", val |-> "", items |-> items]
AppsOther(v) == [type |-> v.type, val |-> v.val, items |-> <<>>]

isArray(a) == a.type = "array"

\* A response body.
NullData == [kind |-> "null", apps |-> NoApps, nextPageToken |-> Undefined,
             appId |-> Undefined]
PrimitiveData == [kind |-> "primitive", apps |-> NoApps, nextPageToken |-> Undefined,
                  appId |-> Undefined]
ListData(apps, token) == [kind |-> "object", apps |-> apps, nextPageToken |-> token,
                          appId |-> Undefined]
CreateData(appId) == [kind |-> "object", apps |-> NoApps, nextPageToken |-> Undefined,
                      appId |-> appId]

isNonNullObject(d) == d.kind = "object"

\* What a request-handler promise settles to.
Resolved(d) == [ok |-> TRUE, err |-> "", data |-> d]
Rejected(e) == [ok |-> FALSE, err |-> e, data |-> NullData]
NoOutcome == [ok |-> FALSE, err |-> "none", data |-> NullData]

TransportErrors == {"network-error", "network-timeout"}
InvalidServerResponse == "invalid-server-response"
InvalidArgument == "invalid-argument"
InvalidProjectId == "invalid-project-id"

\* The settlement of an operation of this layer.
NoResult == [status |-> "none", done |-> FALSE, value |-> <<>>, error |-> "", calls |-> 0]
Fulfilled(done, value, calls) ==
    [status |-> "fulfilled", done |-> done, value |-> value, error |-> "", calls |-> calls]
Failed(e, calls) ==
    [status |-> "rejected", done |-> FALSE, value |-> <<>>, error |-> e, calls |-> calls]

(***************************************************************************)
(* The calling program runs one of five workloads; they share no state,    *)
(* so they are explored side by side instead of interleaved:               *)
(*   "facade"        the one-shot operations of the facade;                *)
(*   "certificates"  the SHA certificate operations of an Android app;     *)
(*   "iterate"       one iteration instance, pulled sequentially, against  *)
(*                   a server that may fail or send malformed responses;   *)
(*   "overlap"       one iteration instance whose pulls may overlap,       *)
(*                   against a server that answers every request with its  *)
(*                   own page;                                             *)
(*   "concurrent"    several iteration instances over the same collection, *)
(*                   their pulls interleaved, each instance pulled         *)
(*                   sequentially, against such a well-behaved server.     *)
(***************************************************************************)
Workloads == {"facade", "certificates", "iterate", "overlap", "concurrent"}

Iterating == workload \in {"iterate", "overlap", "concurrent"}

IterLimit == IF workload = "concurrent" THEN MaxIters ELSE 1

\* In the concurrent workload every instance iterates the collection of the first.
SameCollection(platform) ==
    \A i \in DOMAIN iters : iters[i].platform = platform
InflightLimit == IF workload = "overlap" THEN MaxInflight ELSE 1

(***************************************************************************)
(* The server behind the request handler: a finite listing of apps, split  *)
(* into pages; the continuation token of page p names page p + 1.          *)
(***************************************************************************)
AppId(n) == "a" \o ToString(n)

RECURSIVE SumTo(_, _)
SumTo(s, n) == IF n = 0 THEN 0 ELSE s[n] + SumTo(s, n - 1)

PageSizes ==
    UNION {{s \in [1..k -> 0..MaxApps] : SumTo(s, k) <= MaxApps} : k \in 1..MaxPages}

Paginate(s) == [p \in DOMAIN s |-> [j \in 1..s[p] |-> AppId(SumTo(s, p - 1) + j)]]

Listings == {Paginate(s) : s \in PageSizes}

RECURSIVE Flatten(_)
Flatten(ss) == IF ss = <<>> THEN <<>> ELSE Head(ss) \o Flatten(Tail(ss))

\* The unpaginated listing, in server order.
FullListing == Flatten(pages)

PageToken(p) == Str("page" \o ToString(p))

PageOf(token) ==
    IF token.type = "undefined" THEN 1
    ELSE CHOOSE p \in 1..Len(pages) : PageToken(p) = token

PlatformName(platform) == IF platform = "android" THEN "ANDROID" ELSE "IOS"

\* One entry of a list response.
Entry(appId, platform, name, displayName) ==
    [appId |-> appId, platform |-> platform, name |-> name, displayName |-> displayName]

ServerEntry(id, platform) ==
    Entry(Str(id), Str(PlatformName(platform)), Str("apps/" \o id), Str("app " \o id))

\* The continuation token the server sends with page p: absent or empty on the last.
NextTokens(p) == IF p < Len(pages) THEN {PageToken(p + 1)} ELSE {Undefined, Str("")}

PageEntries(p, platform) ==
    [j \in 1..Len(pages[p]) |-> ServerEntry(pages[p][j], platform)]

\* The well-formed responses for page p.
GoodPages(p, platform) ==
    {ListData(apps, token) :
        apps \in (IF pages[p] = <<>> THEN {NoApps, AppsArray(<<>>)}
                  ELSE {AppsArray(PageEntries(p, platform))}),
        token \in NextTokens(p)}

NonArrays == {Str("apps"), Obj("{}"), Str(""), Num("0"), Bool("false")}
BadAppIds == {Undefined, Str(""), Num("7")}

\* Page p with the appId of entry k replaced by b.
CorruptEntries(p, platform, k, b) ==
    [PageEntries(p, platform) EXCEPT ![k].appId = b]

\* The malformed responses a misbehaving server may send for page p.
BadPages(p, platform) ==
    {NullData, PrimitiveData}
    \cup {ListData(AppsOther(v), token) : v \in NonArrays, token \in NextTokens(p)}
    \cup {ListData(AppsArray(CorruptEntries(p, platform, k, b)), token) :
            k \in 1..Len(pages[p]), b \in BadAppIds, token \in NextTokens(p)}

\* Everything requestHandler.listAndroidApps / listIosApps may settle to.
ListOutcomes(token, platform) ==
    IF workload # "iterate"
    THEN {Resolved(d) : d \in GoodPages(PageOf(token), platform)}
    ELSE {Resolved(d) : d \in GoodPages(PageOf(token), platform)
                             \cup BadPages(PageOf(token), platform)}
         \cup {Rejected(e) : e \in TransportErrors}

(***************************************************************************)
(* The paginated iteration engine.                                         *)
(***************************************************************************)
AndroidApp(appId) == [cls |-> "AndroidApp", appId |-> appId]
IosApp(appId) == [cls |-> "IosApp", appId |-> appId]

\* assertListAppsResponseData: TRUE when no assertion fails.
assertListAppsResponseData(d) ==
    /\ isNonNullObject(d)
    /\ Truthy(d.apps) => isArray(d.apps)

\* responseData.apps || []
AppsOrEmpty(d) == IF Truthy(d.apps) THEN d.apps.items ELSE <<>>

\* The closure variables of a new iteration instance.
NewInstance(platform, callerName) ==
    [platform |-> platform, callerName |-> callerName,
     fetching |-> TRUE, nextPageToken |-> Undefined]

\* ListRequest never sending a page token.
ListRequestFirstPage(it) ==
    [method |-> IF it.platform = "android" THEN "listAndroidApps" ELSE "listIosApps",
     resourceName |-> facade.resourceName,
     pageToken |-> Undefined]

\* The request a pull issues.
ListRequest(it) ==
    [method |-> IF it.platform = "android" THEN "listAndroidApps" ELSE "listIosApps",
     resourceName |-> facade.resourceName,
     pageToken |-> it.nextPageToken]

\* StoreCursor with fetching recomputed from every response.
StoreCursorRefetches(it, d) ==
    [it EXCEPT !.nextPageToken = d.nextPageToken,
               !.fetching = Truthy(d.nextPageToken)]

\* StoreCursor without the assignment to nextPageToken.
StoreCursorKeepsToken(it, d) ==
    [it EXCEPT !.fetching = IF ~Truthy(d.nextPageToken) THEN FALSE ELSE it.fetching]

\* StoreCursor ending the iteration at a page without entries.
StoreCursorStopsOnEmpty(it, d) ==
    [it EXCEPT !.nextPageToken = d.nextPageToken,
               !.fetching = IF ~Truthy(d.nextPageToken) \/ AppsOrEmpty(d) = <<>>
                            THEN FALSE ELSE it.fetching]

\* The assignments to nextPageToken and fetching after a validated response.
StoreCursor(it, d) ==
    [it EXCEPT !.nextPageToken = d.nextPageToken,
               !.fetching = IF ~Truthy(d.nextPageToken) THEN FALSE ELSE it.fetching]

\* MapApps losing the last entry of the page.
MapAppsDropsLast(it, d, calls) ==
    LET all == AppsOrEmpty(d)
        items == SubSeq(all, 1, Len(all) - 1)
    IN
    IF \E j \in 1..Len(all) : ~isNonEmptyString(all[j].appId)
    THEN Failed(InvalidServerResponse, calls)
    ELSE Fulfilled(FALSE,
                   [j \in 1..Len(items) |->
                       IF it.platform = "android" THEN AndroidApp(items[j].appId.val)
                       ELSE IosApp(items[j].appId.val)],
                   calls)

\* MapApps signalling completion together with the last page.
MapAppsDoneOnLast(it, d, calls) ==
    LET items == AppsOrEmpty(d) IN
    IF \E j \in 1..Len(items) : ~isNonEmptyString(items[j].appId)
    THEN Failed(InvalidServerResponse, calls)
    ELSE Fulfilled(~Truthy(d.nextPageToken),
                   [j \in 1..Len(items) |->
                       IF it.platform = "android" THEN AndroidApp(items[j].appId.val)
                       ELSE IosApp(items[j].appId.val)],
                   calls)

\* MapApps returning the entries that precede a malformed one.
MapAppsKeepsPrefix(it, d, calls) ==
    LET all == AppsOrEmpty(d)
        bad == {j \in 1..Len(all) : ~isNonEmptyString(all[j].appId)}
        items == IF bad = {} THEN all
                 ELSE SubSeq(all, 1, (CHOOSE j \in bad : \A k \in bad : j <= k) - 1)
    IN Fulfilled(FALSE,
                 [j \in 1..Len(items) |->
                     IF it.platform = "android" THEN AndroidApp(items[j].appId.val)
                     ELSE IosApp(items[j].appId.val)],
                 calls)

\* MapApps issuing one more request for every entry it turns into a handle.
MapAppsFetchesEach(it, d, calls) ==
    LET items == AppsOrEmpty(d) IN
    IF \E j \in 1..Len(items) : ~isNonEmptyString(items[j].appId)
    THEN Failed(InvalidServerResponse, calls)
    ELSE Fulfilled(FALSE,
                   [j \in 1..Len(items) |->
                       IF it.platform = "android" THEN AndroidApp(items[j].appId.val)
                       ELSE IosApp(items[j].appId.val)],
                   calls + Len(items))

\* The map over the entries: the handles, or the failed assertion.
MapApps(it, d, calls) ==
    LET items == AppsOrEmpty(d) IN
    IF \E j \in 1..Len(items) : ~isNonEmptyString(items[j].appId)
    THEN Failed(InvalidServerResponse, calls)
    ELSE Fulfilled(FALSE,
                   [j \in 1..Len(items) |->
                       IF it.platform = "android" THEN AndroidApp(items[j].appId.val)
                       ELSE IosApp(items[j].appId.val)],
                   calls)

\* ResumePull turning a rejected request into an empty batch.
ResumePullSwallows(it, outcome, calls) ==
    IF ~outcome.ok
    THEN [it |-> it, res |-> Fulfilled(FALSE, <<>>, calls)]
    ELSE IF ~assertListAppsResponseData(outcome.data)
    THEN [it |-> it, res |-> Failed(InvalidServerResponse, calls)]
    ELSE [it |-> StoreCursor(it, outcome.data),
          res |-> MapApps(it, outcome.data, calls)]

\* ResumePull giving up the iteration when the request or the response fails.
ResumePullGivesUp(it, outcome, calls) ==
    IF ~outcome.ok
    THEN [it |-> [it EXCEPT !.fetching = FALSE], res |-> Failed(outcome.err, calls)]
    ELSE IF ~assertListAppsResponseData(outcome.data)
    THEN [it |-> [it EXCEPT !.fetching = FALSE],
          res |-> Failed(InvalidServerResponse, calls)]
    ELSE [it |-> StoreCursor(it, outcome.data),
          res |-> MapApps(it, outcome.data, calls)]

\* The part of next() after the await: the new closure state and the settlement.
ResumePull(it, outcome, calls) ==
    IF ~outcome.ok
    THEN [it |-> it, res |-> Failed(outcome.err, calls)]
    ELSE IF ~assertListAppsResponseData(outcome.data)
    THEN [it |-> it, res |-> Failed(InvalidServerResponse, calls)]
    ELSE [it |-> StoreCursor(it, outcome.data),
          res |-> MapApps(it, outcome.data, calls)]

\* [Symbol.asyncIterator]() of the iterable returned by iterateAndroidApps().
IterateAndroidApps ==
    /\ Iterating
    /\ facade.status = "ok"
    /\ Len(iters) < IterLimit
    /\ SameCollection("android")
    /\ iters' = Append(iters, NewInstance("android", "iterateAndroidApps()"))
    /\ pending' = Append(pending, <<>>)
    /\ reqs' = Append(reqs, <<>>)
    /\ yielded' = Append(yielded, <<>>)
    /\ last' = Append(last, NoResult)
    /\ wire' = Append(wire, NoOutcome)
    /\ answers' = Append(answers, <<>>)
    /\ clean' = Append(clean, TRUE)
    /\ overlapped' = Append(overlapped, FALSE)
    /\ pulls' = Append(pulls, 0)
    /\ UNCHANGED <<workload, facade, pages, call, certs, registered>>

\* [Symbol.asyncIterator]() of the iterable returned by iterateIosApps().
IterateIosApps ==
    /\ Iterating
    /\ facade.status = "ok"
    /\ Len(iters) < IterLimit
    /\ SameCollection("ios")
    /\ iters' = Append(iters, NewInstance("ios", "iterateIosApps()"))
    /\ pending' = Append(pending, <<>>)
    /\ reqs' = Append(reqs, <<>>)
    /\ yielded' = Append(yielded, <<>>)
    /\ last' = Append(last, NoResult)
    /\ wire' = Append(wire, NoOutcome)
    /\ answers' = Append(answers, <<>>)
    /\ clean' = Append(clean, TRUE)
    /\ overlapped' = Append(overlapped, FALSE)
    /\ pulls' = Append(pulls, 0)
    /\ UNCHANGED <<workload, facade, pages, call, certs, registered>>

\* next() up to its await: an exhausted instance settles at once, a fetching one
\* issues the list request with the stored cursor and suspends.
NextCall(i) ==
    /\ i \in DOMAIN iters
    /\ pulls[i] < MaxPulls
    /\ Len(pending[i]) < InflightLimit
    /\ pulls' = [pulls EXCEPT ![i] = @ + 1]
    /\ overlapped' = [overlapped EXCEPT ![i] = @ \/ pending[i] # <<>>]
    /\ IF ~iters[i].fetching
       THEN /\ last' = [last EXCEPT ![i] = Fulfilled(TRUE, <<>>, 0)]
            /\ wire' = [wire EXCEPT ![i] = NoOutcome]
            /\ UNCHANGED <<pending, reqs>>
       ELSE /\ pending' = [pending EXCEPT
                   ![i] = Append(@, [token |-> ListRequest(iters[i]).pageToken,
                                     calls |-> 1])]
            /\ reqs' = [reqs EXCEPT ![i] = Append(@, ListRequest(iters[i]))]
            /\ UNCHANGED <<last, wire>>
    /\ UNCHANGED <<workload, facade, pages, iters, yielded, answers, clean, call, certs,
                   registered>>

\* AssignClosure with fetching and nextPageToken kept on the facade object.
AssignShared(its, i, it) ==
    [j \in DOMAIN its |->
        IF j = i THEN it
        ELSE [its[j] EXCEPT !.fetching = it.fetching,
                            !.nextPageToken = it.nextPageToken]]

\* fetching and nextPageToken are variables of the closure of instance i: an
\* assignment to them reaches that instance alone.
AssignClosure(its, i, it) == [its EXCEPT ![i] = it]

\* What is kept of a settled request: whether the response passed
\* assertListAppsResponseData, the nextPageToken it carried, whether the pull
\* was fulfilled, and whether the response was the server's own page.
Answer(outcome, res, own) ==
    LET validated == outcome.ok /\ assertListAppsResponseData(outcome.data) IN
    [validated |-> validated,
     nextPageToken |-> IF validated THEN outcome.data.nextPageToken ELSE Undefined,
     fulfilled |-> res.status = "fulfilled",
     own |-> own]

RemoveAt(s, k) == [j \in 1..(Len(s) - 1) |-> IF j < k THEN s[j] ELSE s[j + 1]]

\* next() from its await on: the request of suspended pull k settles.
NextResume(i, k) ==
    /\ i \in DOMAIN iters
    /\ k \in DOMAIN pending[i]
    /\ \E outcome \in ListOutcomes(pending[i][k].token, iters[i].platform) :
         LET step == ResumePull(iters[i], outcome, pending[i][k].calls)
             page == PageOf(pending[i][k].token)
         IN /\ iters' = AssignClosure(iters, i, step.it)
            /\ last' = [last EXCEPT ![i] = step.res]
            /\ wire' = [wire EXCEPT ![i] = outcome]
            /\ answers' = [answers EXCEPT ![i] =
                   Append(@, Answer(outcome, step.res,
                                    outcome.ok /\ outcome.data \in
                                        GoodPages(page, iters[i].platform)))]
            /\ yielded' = [yielded EXCEPT ![i] =
                   IF step.res.status = "fulfilled"
                   THEN Append(@, [page |-> page, value |-> step.res.value])
                   ELSE @]
            /\ clean' = [clean EXCEPT ![i] =
                   @ /\ outcome.ok /\ outcome.data \in GoodPages(page, iters[i].platform)]
    /\ pending' = [pending EXCEPT ![i] = RemoveAt(@, k)]
    /\ UNCHANGED <<workload, facade, pages, reqs, overlapped, pulls, call, certs, registered>>

(***************************************************************************)
(* The facade's constructor.                                               *)
(***************************************************************************)
\* The argument of the constructor, with what utils.getProjectId(app) resolves for it.
AppArg(kind, hasOptions, projectId) ==
    [kind |-> kind, hasOptions |-> hasOptions, projectId |-> projectId]

ProjectIds == {"p1"}

AppArgs ==
    {AppArg("null", FALSE, Undefined), AppArg("primitive", FALSE, Undefined),
     AppArg("object", FALSE, Undefined), AppArg("object", FALSE, Str("p1"))}
    \cup {AppArg("object", TRUE, v) :
            v \in {Undefined, JsNull, Str("")} \cup {Str(p) : p \in ProjectIds}}

NoFacade ==
    [status |-> "none", error |-> "", app |-> AppArg("null", FALSE, Undefined),
     projectId |-> Undefined, resourceName |-> "", requestHandler |-> FALSE]

\* The constructor threw e for the argument app.
Threw(e, app) == [NoFacade EXCEPT !.status = "threw", !.error = e, !.app = app]

\* Construct with the project ID checked before the app argument.
ConstructChecksProjectFirst(app) ==
    IF ~isNonEmptyString(app.projectId)
    THEN [Threw(InvalidProjectId, app) EXCEPT !.projectId = app.projectId]
    ELSE IF ~isNonNullObject(app) \/ ~app.hasOptions
    THEN Threw(InvalidArgument, app)
    ELSE [status |-> "ok", error |-> "", app |-> app, projectId |-> app.projectId,
          resourceName |-> "projects/" \o app.projectId.val,
          requestHandler |-> TRUE]

\* new ProjectManagement(app)
Construct(app) ==
    IF ~isNonNullObject(app) \/ ~app.hasOptions
    THEN Threw(InvalidArgument, app)
    ELSE IF ~isNonEmptyString(app.projectId)
    THEN [Threw(InvalidProjectId, app) EXCEPT !.projectId = app.projectId]
    ELSE [status |-> "ok", error |-> "", app |-> app, projectId |-> app.projectId,
          resourceName |-> "projects/" \o app.projectId.val,
          requestHandler |-> TRUE]

Constructor ==
    /\ facade.status = "none"
    /\ \E app \in AppArgs : facade' = Construct(app)
    /\ UNCHANGED <<workload, pages, call, certs, registered>>
    /\ UNCHANGED iterVars

(***************************************************************************)
(* The one-shot operations of the facade.  The caller awaits each          *)
(* operation before it starts the next one.                                *)
(***************************************************************************)
\* A ShaCertificate object; origin records who built it.
Certificate(shaHash, resourceName, origin) ==
    [shaHash |-> shaHash, resourceName |-> resourceName, origin |-> origin]

NoCert == Certificate("", Undefined, "none")

Idle == [op |-> "none", pc |-> "idle", resourceName |-> "", arg |-> NoCert, calls |-> 0,
         outcome |-> NoOutcome, result |-> NoResult]

\* The operation's single call of the request handler, made with this.resourceName.
Request(op) ==
    [op |-> op, pc |-> "pending", resourceName |-> facade.resourceName, arg |-> NoCert,
     calls |-> 1, outcome |-> NoOutcome, result |-> NoResult]

Settled(outcome, result) ==
    [call EXCEPT !.pc = "done", !.outcome = outcome, !.result = result]

CanCall ==
    /\ workload = "facade"
    /\ facade.status = "ok"
    /\ call.pc # "pending"

callFrame == <<workload, facade, pages, certs, registered>>

\* What requestHandler.createAndroidApp / createIosApp may settle to.
CreateOutcomes ==
    {Rejected(e) : e \in TransportErrors}
    \cup {Resolved(NullData), Resolved(PrimitiveData)}
    \cup {Resolved(CreateData(v)) :
            v \in {Undefined, Str(""), Num("7"), Str(AppId(1)), Str(AppId(2))}}

\* CreateThen without the assertion on responseData.appId.
CreateThenTrustsAppId(outcome, cls, calls) ==
    IF ~outcome.ok THEN Failed(outcome.err, calls)
    ELSE IF ~isNonNullObject(outcome.data) THEN Failed(InvalidServerResponse, calls)
    ELSE Fulfilled(FALSE, <<[cls |-> cls, appId |-> outcome.data.appId.val]>>, calls)

\* The .then callback of createAndroidApp / createIosApp.
CreateThen(outcome, cls, calls) ==
    IF ~outcome.ok THEN Failed(outcome.err, calls)
    ELSE IF ~isNonNullObject(outcome.data) THEN Failed(InvalidServerResponse, calls)
    ELSE IF ~isNonEmptyString(outcome.data.appId) THEN Failed(InvalidServerResponse, calls)
    ELSE Fulfilled(FALSE, <<[cls |-> cls, appId |-> outcome.data.appId.val]>>, calls)

CreateAndroidApp ==
    /\ CanCall
    /\ call' = Request("createAndroidApp")
    /\ UNCHANGED callFrame
    /\ UNCHANGED iterVars

CreateAndroidAppThen ==
    /\ call.pc = "pending"
    /\ call.op = "createAndroidApp"
    /\ \E outcome \in CreateOutcomes :
         call' = Settled(outcome, CreateThen(outcome, "AndroidApp", call.calls))
    /\ UNCHANGED callFrame
    /\ UNCHANGED iterVars

CreateIosApp ==
    /\ CanCall
    /\ call' = Request("createIosApp")
    /\ UNCHANGED callFrame
    /\ UNCHANGED iterVars

CreateIosAppThen ==
    /\ call.pc = "pending"
    /\ call.op = "createIosApp"
    /\ \E outcome \in CreateOutcomes :
         call' = Settled(outcome, CreateThen(outcome, "IosApp", call.calls))
    /\ UNCHANGED callFrame
    /\ UNCHANGED iterVars

\* The members of the AppPlatform enum.
AppPlatform == {"PLATFORM_UNKNOWN", "ANDROID", "IOS"}

\* Property names every JavaScript object inherits from Object.prototype.
ObjectPrototypeKeys == {"constructor", "toString", "valueOf", "hasOwnProperty"}

\* (AppPlatform as any)[key]: a property lookup on the enum object.
AppPlatformLookup(key) ==
    IF key \in AppPlatform THEN Str(key)
    ELSE IF key \in ObjectPrototypeKeys THEN Fun(key)
    ELSE Undefined

\* (AppPlatform as any)[appJson.platform] || AppPlatform.PLATFORM_UNKNOWN
PlatformOf(platform) ==
    IF Truthy(AppPlatformLookup(platform.val)) THEN AppPlatformLookup(platform.val)
    ELSE Str("PLATFORM_UNKNOWN")

\* The AppMetadata built from one entry; an absent displayName is Undefined.
Metadata(appJson) ==
    [appId |-> appJson.appId.val,
     platform |-> PlatformOf(appJson.platform),
     projectId |-> facade.projectId.val,
     resourceName |-> appJson.name,
     displayName |-> IF Truthy(appJson.displayName) THEN appJson.displayName
                     ELSE Undefined]

\* transformResponseToAppMetadata without the assertion on apps[].platform.
transformResponseDefaultsPlatform(d, calls) ==
    IF ~assertListAppsResponseData(d) THEN Failed(InvalidServerResponse, calls)
    ELSE IF ~Truthy(d.apps) THEN Fulfilled(FALSE, <<>>, calls)
    ELSE IF \E j \in 1..Len(d.apps.items) : ~isNonEmptyString(d.apps.items[j].appId)
    THEN Failed(InvalidServerResponse, calls)
    ELSE Fulfilled(FALSE,
                   [j \in 1..Len(d.apps.items) |-> Metadata(d.apps.items[j])],
                   calls)

\* transformResponseToAppMetadata after a resolved request.
transformResponseToAppMetadata(d, calls) ==
    IF ~assertListAppsResponseData(d) THEN Failed(InvalidServerResponse, calls)
    ELSE IF ~Truthy(d.apps) THEN Fulfilled(FALSE, <<>>, calls)
    ELSE IF \E j \in 1..Len(d.apps.items) :
                \/ ~isNonEmptyString(d.apps.items[j].appId)
                \/ ~isNonEmptyString(d.apps.items[j].platform)
    THEN Failed(InvalidServerResponse, calls)
    ELSE Fulfilled(FALSE,
                   [j \in 1..Len(d.apps.items) |-> Metadata(d.apps.items[j])],
                   calls)

\* The entries a listAppMetadata() response is made of: a well-formed entry,
\* varied in one field at a time.
BaseEntry == ServerEntry(AppId(1), "android")

MetaEntries ==
    {BaseEntry, ServerEntry(AppId(2), "ios")}
    \cup {[BaseEntry EXCEPT !.appId = v] : v \in BadAppIds}
    \cup {[BaseEntry EXCEPT !.platform = v] :
            v \in {Str("PLATFORM_UNKNOWN"), Str("WEB"), Str("constructor"),
                   Str(""), Num("7"), Undefined}}
    \cup {[BaseEntry EXCEPT !.name = Undefined]}
    \cup {[BaseEntry EXCEPT !.displayName = v] : v \in {Str(""), Undefined}}

RECURSIVE SeqsUpTo(_, _)
SeqsUpTo(S, n) ==
    IF n = 0 THEN {<<>>}
    ELSE LET shorter == SeqsUpTo(S, n - 1)
         IN shorter \cup {Append(q, x) : q \in {r \in shorter : Len(r) = n - 1}, x \in S}

\* What requestHandler.listAppMetadata may settle to.
MetadataOutcomes ==
    {Rejected(e) : e \in TransportErrors}
    \cup {Resolved(NullData), Resolved(PrimitiveData), Resolved(ListData(NoApps, Undefined))}
    \cup {Resolved(ListData(AppsOther(v), Undefined)) : v \in NonArrays}
    \cup {Resolved(ListData(AppsArray(q), Undefined)) : q \in SeqsUpTo(MetaEntries, MaxEntries)}

ListAppMetadata ==
    /\ CanCall
    /\ call' = Request("listAppMetadata")
    /\ UNCHANGED callFrame
    /\ UNCHANGED iterVars

ListAppMetadataThen ==
    /\ call.pc = "pending"
    /\ call.op = "listAppMetadata"
    /\ \E outcome \in MetadataOutcomes :
         call' = Settled(outcome,
                         IF ~outcome.ok THEN Failed(outcome.err, call.calls)
                         ELSE transformResponseToAppMetadata(outcome.data, call.calls))
    /\ UNCHANGED callFrame
    /\ UNCHANGED iterVars

\* setDisplayName returns the request handler's promise itself.
SetDisplayName ==
    /\ CanCall
    /\ call' = Request("setDisplayName")
    /\ UNCHANGED callFrame
    /\ UNCHANGED iterVars

SetDisplayNameSettle ==
    /\ call.pc = "pending"
    /\ call.op = "setDisplayName"
    /\ \E outcome \in {Rejected(e) : e \in TransportErrors} \cup {Resolved(NullData)} :
         call' = Settled(outcome,
                         IF ~outcome.ok THEN Failed(outcome.err, call.calls)
                         ELSE Fulfilled(FALSE, <<>>, call.calls))
    /\ UNCHANGED callFrame
    /\ UNCHANGED iterVars

(***************************************************************************)
(* SHA certificates of one Android app.  Only shaCertificate() is in the   *)
(* facade's source; the app's certificate operations follow section 4.3.   *)
(***************************************************************************)
Sha1Hash == "aaaaccccaaaaccccaaaaccccaaaaccccaaaacccc"
Sha256Hash == "aaaaccccaaaaccccaaaaccccaaaaccccaaaaccccaaaaccccaaaaccccaaaacccc"
ShaHashes == {Sha1Hash, Sha256Hash}

CanCallCert ==
    /\ workload = "certificates"
    /\ facade.status = "ok"
    /\ call.pc # "pending"

\* The resourceName the server assigns to a registered certificate.
CertName(shaHash) == Str("sha/" \o shaHash)

\* ShaCertificate inventing the resourceName the server would assign.
ShaCertificateNamed(shaHash) ==
    /\ CanCallCert
    /\ Len(certs) < MaxCerts
    /\ certs' = Append(certs, Certificate(shaHash, CertName(shaHash), "local"))
    /\ UNCHANGED <<workload, facade, pages, call, registered>>
    /\ UNCHANGED iterVars

\* shaCertificate(shaHash): a local object, no request.
ShaCertificate(shaHash) ==
    /\ CanCallCert
    /\ Len(certs) < MaxCerts
    /\ certs' = Append(certs, Certificate(shaHash, Undefined, "local"))
    /\ UNCHANGED <<workload, facade, pages, call, registered>>
    /\ UNCHANGED iterVars

\* new ShaCertificate(shaHash, ''): a local object with an empty resourceName.
NewShaCertificate(shaHash) ==
    /\ CanCallCert
    /\ Len(certs) < MaxCerts
    /\ certs' = Append(certs, Certificate(shaHash, Str(""), "local"))
    /\ UNCHANGED <<workload, facade, pages, call, registered>>
    /\ UNCHANGED iterVars

\* androidApp.addShaCertificate(cert): one request.
AddShaCertificate(c) ==
    /\ CanCallCert
    /\ c \in DOMAIN certs
    /\ call' = [Request("addShaCertificate") EXCEPT !.arg = certs[c]]
    /\ UNCHANGED <<workload, facade, pages, certs, registered>>
    /\ UNCHANGED iterVars

\* The server registers the certificate under a resourceName of its own; the
\* object passed in is left as it was.
AddShaCertificateSettle ==
    /\ call.pc = "pending"
    /\ call.op = "addShaCertificate"
    /\ \E outcome \in {Rejected(e) : e \in TransportErrors} \cup {Resolved(NullData)} :
         /\ call' = Settled(outcome,
                            IF ~outcome.ok THEN Failed(outcome.err, call.calls)
                            ELSE Fulfilled(FALSE, <<>>, call.calls))
         /\ registered' =
                IF outcome.ok
                THEN registered \cup
                       {Certificate(call.arg.shaHash, CertName(call.arg.shaHash), "server")}
                ELSE registered
    /\ UNCHANGED <<workload, facade, pages, certs>>
    /\ UNCHANGED iterVars

\* androidApp.getShaCertificates(): one request.
GetShaCertificates ==
    /\ CanCallCert
    /\ call' = Request("getShaCertificates")
    /\ UNCHANGED <<workload, facade, pages, certs, registered>>
    /\ UNCHANGED iterVars

\* The caller keeps one of the certificates returned, if it has room for it.
GetShaCertificatesSettle ==
    /\ call.pc = "pending"
    /\ call.op = "getShaCertificates"
    /\ \E outcome \in {Rejected(e) : e \in TransportErrors} \cup {Resolved(NullData)} :
         IF ~outcome.ok
         THEN /\ call' = Settled(outcome, Failed(outcome.err, call.calls))
              /\ UNCHANGED certs
         ELSE /\ call' = Settled(outcome, Fulfilled(FALSE, <<>>, call.calls))
              /\ \/ UNCHANGED certs
                 \/ \E r \in registered :
                      /\ Len(certs) < MaxCerts
                      /\ certs' = Append(certs, r)
    /\ UNCHANGED <<workload, facade, pages, registered>>
    /\ UNCHANGED iterVars

\* androidApp.deleteShaCertificate(cert): without a resourceName it throws before
\* any request; otherwise one request.
DeleteShaCertificate(c) ==
    /\ CanCallCert
    /\ c \in DOMAIN certs
    /\ IF ~Truthy(certs[c].resourceName)
       THEN call' = [Request("deleteShaCertificate") EXCEPT
                        !.arg = certs[c], !.pc = "done", !.calls = 0,
                        !.result = Failed(InvalidArgument, 0)]
       ELSE call' = [Request("deleteShaCertificate") EXCEPT !.arg = certs[c]]
    /\ UNCHANGED <<workload, facade, pages, certs, registered>>
    /\ UNCHANGED iterVars

DeleteShaCertificateSettle ==
    /\ call.pc = "pending"
    /\ call.op = "deleteShaCertificate"
    /\ \E outcome \in {Rejected(e) : e \in TransportErrors} \cup {Resolved(NullData)} :
         /\ call' = Settled(outcome,
                            IF ~outcome.ok THEN Failed(outcome.err, call.calls)
                            ELSE Fulfilled(FALSE, <<>>, call.calls))
         /\ registered' =
                IF outcome.ok
                THEN {r \in registered : r.resourceName # call.arg.resourceName}
                ELSE registered
    /\ UNCHANGED <<workload, facade, pages, certs>>
    /\ UNCHANGED iterVars

(***************************************************************************)
(* The specification.                                                      *)
(***************************************************************************)
Init ==
    /\ workload \in Workloads
    /\ facade = NoFacade
    /\ pages \in (IF Iterating THEN Listings ELSE {<<<<>>>>})
    /\ iters = <<>>
    /\ pending = <<>>
    /\ reqs = <<>>
    /\ yielded = <<>>
    /\ last = <<>>
    /\ wire = <<>>
    /\ answers = <<>>
    /\ clean = <<>>
    /\ overlapped = <<>>
    /\ pulls = <<>>
    /\ call = Idle
    /\ certs = <<>>
    /\ registered = {}

Next ==
    \/ Constructor
    \/ IterateAndroidApps
    \/ IterateIosApps
    \/ \E i \in 1..MaxIters : NextCall(i)
    \/ \E i \in 1..MaxIters : \E k \in 1..MaxInflight : NextResume(i, k)
    \/ CreateAndroidApp
    \/ CreateAndroidAppThen
    \/ CreateIosApp
    \/ CreateIosAppThen
    \/ ListAppMetadata
    \/ ListAppMetadataThen
    \/ SetDisplayName
    \/ SetDisplayNameSettle
    \/ \E h \in ShaHashes : ShaCertificate(h)
    \/ \E h \in ShaHashes : NewShaCertificate(h)
    \/ \E c \in 1..MaxCerts : AddShaCertificate(c)
    \/ AddShaCertificateSettle
    \/ GetShaCertificates
    \/ GetShaCertificatesSettle
    \/ \E c \in 1..MaxCerts : DeleteShaCertificate(c)
    \/ DeleteShaCertificateSettle

Spec == Init /\ [][Next]_vars

(***************************************************************************)
(* Properties of the iteration engine.                                     *)
(***************************************************************************)
Handles(platform, ids) ==
    [n \in 1..Len(ids) |->
        IF platform = "android" THEN AndroidApp(ids[n]) ELSE IosApp(ids[n])]

\* All batches instance i has yielded, concatenated.
Batches(i) == Flatten([j \in 1..Len(yielded[i]) |-> yielded[i][j].value])

IsPrefix(a, b) == Len(a) <= Len(b) /\ a = SubSeq(b, 1, Len(a))

\* The pulls of instance i ran one after another and every response was the
\* server's own page.
Sequential(i) == clean[i] /\ ~overlapped[i]

\* The last pull of instance i signalled completion.
Completed(i) == last[i].status = "fulfilled" /\ last[i].done

\* The last pull of instance i received a validated response without a cursor.
GotLastPage(i) ==
    /\ wire[i].ok
    /\ assertListAppsResponseData(wire[i].data)
    /\ ~Truthy(wire[i].data.nextPageToken)

NoPageTwice(i) ==
    \A a, b \in DOMAIN yielded[i] : a # b => yielded[i][a].page # yielded[i][b].page

\* C1: with sequential pulls and no failure, the batches yielded so far are a
\* prefix of the server's unpaginated listing, they are the whole listing in
\* server order once completion is signalled, and the instance stops fetching
\* as soon as a response lacks a continuation cursor.
C1_IterationYieldsFullListing ==
    \A i \in DOMAIN iters :
        Sequential(i) =>
            /\ IsPrefix(Batches(i), Handles(iters[i].platform, FullListing))
            /\ Completed(i) => Batches(i) = Handles(iters[i].platform, FullListing)
            /\ GotLastPage(i) => ~iters[i].fetching
            /\ ~iters[i].fetching => Len(yielded[i]) = Len(pages)

C1_Witness ==
    \E i \in DOMAIN iters :
        /\ Sequential(i)
        /\ Completed(i)
        /\ Len(pages) = MaxPages
        /\ Len(FullListing) = MaxApps
        /\ \A p \in DOMAIN pages : pages[p] # <<>>
        /\ Batches(i) = Handles(iters[i].platform, FullListing)

\* C2: once an instance is exhausted it stays exhausted, and every pull begun
\* afterwards settles with done=true and an empty batch without a request.
C2_ExhaustedIsTerminal ==
    [][\A i \in DOMAIN iters :
          ~iters[i].fetching =>
              /\ ~iters'[i].fetching
              /\ pulls'[i] > pulls[i] =>
                    /\ last'[i] = Fulfilled(TRUE, <<>>, 0)
                    /\ reqs'[i] = reqs[i]
                    /\ pending'[i] = pending[i]]_vars

C2_Witness ==
    \E i \in DOMAIN iters :
        /\ ~iters[i].fetching
        /\ Len(reqs[i]) = 1
        /\ pending[i] = <<>>
        /\ pulls[i] >= 3
        /\ last[i] = Fulfilled(TRUE, <<>>, 0)

\* C3: a validated response without a cursor is returned as a batch with
\* done=false and exhausts the instance; completion is signalled only by an
\* exhausted instance, so n pages give n batches, page by page, then completion.
C3_LastPageIsOrdinaryBatch ==
    \A i \in DOMAIN iters :
        /\ (GotLastPage(i) /\ last[i].status = "fulfilled") =>
              /\ ~last[i].done
              /\ Len(last[i].value) = Len(AppsOrEmpty(wire[i].data))
              /\ \A j \in DOMAIN last[i].value :
                    last[i].value[j].appId = AppsOrEmpty(wire[i].data)[j].appId.val
              /\ ~iters[i].fetching
        /\ Completed(i) => ~iters[i].fetching
        /\ (Sequential(i) /\ Completed(i)) =>
              /\ Len(yielded[i]) = Len(pages)
              /\ \A p \in DOMAIN pages :
                    /\ yielded[i][p].page = p
                    /\ yielded[i][p].value = Handles(iters[i].platform, pages[p])

C3_Witness ==
    /\ pages = <<<<"a1">>, <<"a2">>>>
    /\ \E i \in DOMAIN iters :
          /\ Sequential(i)
          /\ Completed(i)
          /\ Len(yielded[i]) = 2
          /\ yielded[i][1].value = <<AndroidApp("a1")>>
          /\ yielded[i][2].value = <<AndroidApp("a2")>>

\* C4: a new instance starts fetching with no cursor and leaves the others as
\* they are, a pull of one instance leaves the closure state, requests and
\* batches of every other instance unchanged, and with two or more instances
\* each one still yields the whole listing.
C4_InstancesAreIndependent ==
    /\ [](\A i \in DOMAIN iters :
            (Len(iters) >= 2 /\ Sequential(i) /\ Completed(i)) =>
                Batches(i) = Handles(iters[i].platform, FullListing))
    /\ [][/\ Len(iters') > Len(iters) =>
                /\ iters'[Len(iters')].fetching
                /\ iters'[Len(iters')].nextPageToken = Undefined
                /\ \A j \in DOMAIN iters : iters'[j] = iters[j]
          /\ \A i, j \in DOMAIN iters :
                (i # j /\ (pulls'[i] # pulls[i] \/ pending'[i] # pending[i])) =>
                    /\ iters'[j] = iters[j]
                    /\ reqs'[j] = reqs[j]
                    /\ yielded'[j] = yielded[j]]_vars

C4_Witness ==
    /\ Len(iters) = 2
    /\ Len(pages) = 2
    /\ FullListing # <<>>
    /\ Len(yielded[1]) = 1
    /\ iters[1].fetching
    /\ iters[1].nextPageToken = PageToken(2)
    /\ Completed(2)
    /\ Batches(2) = Handles(iters[2].platform, FullListing)

\* C5: when every pull completes before the next begins, no page is yielded
\* twice and no request is outstanding once the last page has been received.
C5_SequentialPullsNeverRepeat ==
    \A i \in DOMAIN iters :
        ~overlapped[i] =>
            /\ NoPageTwice(i)
            /\ ~iters[i].fetching => pending[i] = <<>>

\* Two overlapping pulls sent the same cursor and the same page was yielded twice.
C5_Witness ==
    \E i \in DOMAIN iters :
        /\ overlapped[i]
        /\ clean[i]
        /\ Len(reqs[i]) >= 2
        /\ reqs[i][1].pageToken = reqs[i][2].pageToken
        /\ ~NoPageTwice(i)
        /\ pages[1] # <<>>

(***************************************************************************)
(* Properties of the facade, its one-shot operations and the certificates. *)
(***************************************************************************)
FacadeOps == {"createAndroidApp", "createIosApp", "listAppMetadata", "setDisplayName"}

HasBadAppId(items) == \E j \in DOMAIN items : ~isNonEmptyString(items[j].appId)

\* C6: deleteShaCertificate on a certificate without a resourceName fails with
\* invalid-argument and no request, and a certificate built locally never has a
\* resourceName, whatever was added to the server in the meantime.
C6_DeleteWithoutResourceNameFails ==
    /\ \A c \in DOMAIN certs :
          certs[c].origin = "local" => ~Truthy(certs[c].resourceName)
    /\ (call.op = "deleteShaCertificate" /\ ~Truthy(call.arg.resourceName)) =>
          /\ call.pc = "done"
          /\ call.calls = 0
          /\ call.result = Failed(InvalidArgument, 0)

\* A local certificate was added successfully and its deletion then failed.
C6_Witness ==
    /\ call.op = "deleteShaCertificate"
    /\ call.arg = Certificate(Sha256Hash, Undefined, "local")
    /\ Certificate(Sha256Hash, CertName(Sha256Hash), "server") \in registered
    /\ call.result = Failed(InvalidArgument, 0)

\* C7: the constructor throws invalid-argument for a null, non-object or
\* option-less argument, otherwise invalid-project-id when no non-empty project
\* ID resolves, in both cases without a request handler and before any request;
\* otherwise the facade exists with resourceName "projects/" + projectId.
C7_ConstructorFailsFast ==
    /\ facade.status = "none" => facade = NoFacade
    /\ facade.status # "ok" => (call = Idle /\ iters = <<>> /\ certs = <<>>)
    /\ facade.status # "none" =>
          IF facade.app.kind # "object" \/ ~facade.app.hasOptions
          THEN /\ facade.status = "threw"
               /\ facade.error = InvalidArgument
               /\ ~facade.requestHandler
          ELSE IF facade.app.projectId.type # "string" \/ facade.app.projectId.val = ""
          THEN /\ facade.status = "threw"
               /\ facade.error = InvalidProjectId
               /\ ~facade.requestHandler
          ELSE /\ facade.status = "ok"
               /\ facade.requestHandler
               /\ facade.projectId = facade.app.projectId
               /\ facade.resourceName = "projects/" \o facade.app.projectId.val

C7_Witness ==
    /\ facade.status = "threw"
    /\ facade.error = InvalidProjectId
    /\ facade.app = AppArg("object", TRUE, Str(""))
    /\ ~facade.requestHandler

\* C8: listAppMetadata() maps a recognized platform name to that platform and
\* every other non-empty platform string to PLATFORM_UNKNOWN, and returns one
\* metadata value per entry.
C8_UnknownPlatformDegrades ==
    (/\ call.op = "listAppMetadata"
     /\ call.pc = "done"
     /\ call.outcome.ok
     /\ isNonNullObject(call.outcome.data)
     /\ isArray(call.outcome.data.apps)
     /\ \A j \in DOMAIN call.outcome.data.apps.items :
           /\ isNonEmptyString(call.outcome.data.apps.items[j].appId)
           /\ isNonEmptyString(call.outcome.data.apps.items[j].platform)) =>
        /\ call.result.status = "fulfilled"
        /\ Len(call.result.value) = Len(call.outcome.data.apps.items)
        /\ \A j \in DOMAIN call.result.value :
              call.result.value[j].platform =
                 IF call.outcome.data.apps.items[j].platform.val \in AppPlatform
                 THEN Str(call.outcome.data.apps.items[j].platform.val)
                 ELSE Str("PLATFORM_UNKNOWN")

\* C9: when the request handler rejects, the pull or facade operation rejects
\* with that same error after exactly one request and returns nothing.
C9_TransportErrorsPassThrough ==
    /\ \A i \in DOMAIN iters :
          (~wire[i].ok /\ wire[i].err \in TransportErrors) =>
              last[i] = Failed(wire[i].err, 1)
    /\ (call.pc = "done" /\ call.op \in FacadeOps /\ ~call.outcome.ok) =>
          /\ call.calls = 1
          /\ call.result = Failed(call.outcome.err, 1)

\* A pull was rejected by the transport after an earlier page had been yielded.
C9_Witness ==
    \E i \in DOMAIN iters :
        /\ Len(yielded[i]) = 1
        /\ Len(reqs[i]) = 2
        /\ wire[i] = Rejected("network-timeout")
        /\ last[i] = Failed("network-timeout", 1)

\* C10: a page with an entry that lacks a non-empty string appId fails the whole
\* pull, and the whole listAppMetadata() call, with invalid-server-response and
\* an empty result.
C10_NoPartialResult ==
    /\ \A i \in DOMAIN iters :
          (/\ wire[i].ok
           /\ assertListAppsResponseData(wire[i].data)
           /\ HasBadAppId(AppsOrEmpty(wire[i].data))) =>
              /\ last[i] = Failed(InvalidServerResponse, 1)
              /\ last[i].value = <<>>
    /\ (/\ call.op = "listAppMetadata"
        /\ call.pc = "done"
        /\ call.outcome.ok
        /\ assertListAppsResponseData(call.outcome.data)
        /\ HasBadAppId(AppsOrEmpty(call.outcome.data))) =>
          /\ call.result = Failed(InvalidServerResponse, 1)
          /\ call.result.value = <<>>

\* The middle entry of a page of three is malformed; its neighbours are not.
C10_Witness ==
    \E i \in DOMAIN iters :
        /\ wire[i].ok
        /\ Len(AppsOrEmpty(wire[i].data)) = 3
        /\ isNonEmptyString(AppsOrEmpty(wire[i].data)[1].appId)
        /\ ~isNonEmptyString(AppsOrEmpty(wire[i].data)[2].appId)
        /\ isNonEmptyString(AppsOrEmpty(wire[i].data)[3].appId)
        /\ last[i] = Failed(InvalidServerResponse, 1)

(***************************************************************************)
(* Properties of the order of the steps within one pull.                   *)
(***************************************************************************)
\* A suspended pull of instance i settles in this step.
PullSettles(i) == Len(pending'[i]) < Len(pending[i])

\* C11: a pull that fails with invalid-server-response, on the response object
\* or on any entry, leaves the stored cursor and the fetching flag exactly as
\* they were before the pull.
C11_FailedPullKeepsCursor ==
    [][\A i \in DOMAIN iters :
          (PullSettles(i) /\ last'[i] = Failed(InvalidServerResponse, 1)) =>
              /\ iters'[i].nextPageToken = iters[i].nextPageToken
              /\ iters'[i].fetching = iters[i].fetching]_vars

\* The nextPageToken of the most recent validated response among the first n
\* answers; no token when there is none.
RECURSIVE LastToken(_, _)
LastToken(as, n) ==
    IF n = 0 THEN Undefined
    ELSE IF as[n].validated THEN as[n].nextPageToken
    ELSE LastToken(as, n - 1)

C13_OneRequestPerPull ==
    /\ [](\A i \in DOMAIN iters :
            /\ Len(reqs[i]) <= pulls[i]
            /\ last[i].status # "none" => last[i].calls = (IF last[i].done THEN 0 ELSE 1)
            /\ Sequential(i) => Len(reqs[i]) <= Len(pages)
            /\ (Sequential(i) /\ Completed(i)) => Len(reqs[i]) = Len(pages))
    /\ [][/\ Len(iters') > Len(iters) =>
                /\ reqs'[Len(iters')] = <<>>
                /\ \A j \in DOMAIN iters : reqs'[j] = reqs[j]
          /\ \A i \in DOMAIN iters :
                /\ pulls'[i] > pulls[i] =>
                      Len(reqs'[i]) = Len(reqs[i]) + (IF iters[i].fetching THEN 1 ELSE 0)
                /\ pulls'[i] = pulls[i] => reqs'[i] = reqs[i]]_vars

\* A walk of two pages, one of them with several entries, pulled three times:
\* two requests.
C13_Witness ==
    \E i \in DOMAIN iters :
        /\ Sequential(i)
        /\ Completed(i)
        /\ Len(pages) = 2
        /\ \E p \in DOMAIN pages : Len(pages[p]) >= 2
        /\ pulls[i] = 3
        /\ Len(reqs[i]) = 2

(***************************************************************************)
(* Properties of the validation of list and create responses.              *)
(***************************************************************************)
\* The response is null, not an object, or has an "apps" field that is present
\* and is not an array.
Misshapen(d) ==
    \/ ~isNonNullObject(d)
    \/ (d.apps.type # "undefined" /\ ~isArray(d.apps))

\* C14: a list response that is null or not an object, or whose "apps" field is
\* present and is not an array (falsy values included), fails the pull, and
\* listAppMetadata(), with invalid-server-response.
C14_MisshapenResponseFails ==
    /\ \A i \in DOMAIN iters :
          (wire[i].ok /\ Misshapen(wire[i].data)) =>
              last[i] = Failed(InvalidServerResponse, 1)
    /\ (/\ call.op = "listAppMetadata"
        /\ call.pc = "done"
        /\ call.outcome.ok
        /\ Misshapen(call.outcome.data)) =>
          call.result = Failed(InvalidServerResponse, 1)

\* C15: every AppMetadata returned by listAppMetadata() has the entry's
\* non-empty appId, a platform of the enum, the facade's project ID, a string
\* resourceName taken from the entry's name, and a displayName exactly when the
\* entry carries a non-empty one.
C15_MetadataFullyPopulated ==
    (call.op = "listAppMetadata" /\ call.pc = "done"
       /\ call.result.status = "fulfilled" /\ Truthy(call.outcome.data.apps)) =>
        /\ Len(call.result.value) = Len(call.outcome.data.apps.items)
        /\ \A j \in DOMAIN call.result.value :
              LET m == call.result.value[j]
                  e == call.outcome.data.apps.items[j]
              IN /\ m.appId # ""
                 /\ Str(m.appId) = e.appId
                 /\ m.platform \in {Str(p) : p \in AppPlatform}
                 /\ m.projectId = facade.projectId.val
                 /\ m.resourceName.type = "string"
                 /\ m.resourceName = e.name
                 /\ (m.displayName # Undefined) <=> isNonEmptyString(e.displayName)
                 /\ m.displayName # Undefined => m.displayName = e.displayName

CreateOps == {"createAndroidApp", "createIosApp"}

\* C16: createAndroidApp / createIosApp issue exactly one request and settle
\* only after it; for a resolved request they return a handle of their platform
\* with the response's appId exactly when the response is a non-null object with
\* a non-empty string appId, and otherwise reject with invalid-server-response
\* without a handle.
C16_CreateValidatesResponse ==
    call.op \in CreateOps =>
        /\ call.calls = 1
        /\ call.pc = "pending" => call.result = NoResult
        /\ (call.pc = "done" /\ call.outcome.ok) =>
              IF /\ isNonNullObject(call.outcome.data)
                 /\ isNonEmptyString(call.outcome.data.appId)
              THEN call.result =
                      Fulfilled(FALSE,
                                <<IF call.op = "createAndroidApp"
                                  THEN AndroidApp(call.outcome.data.appId.val)
                                  ELSE IosApp(call.outcome.data.appId.val)>>,
                                1)
              ELSE call.result = Failed(InvalidServerResponse, 1)

\* createIosApp received a response whose appId is a number.
C16_Witness ==
    /\ call.op = "createIosApp"
    /\ call.pc = "done"
    /\ call.outcome = Resolved(CreateData(Num("7")))
    /\ call.result = Failed(InvalidServerResponse, 1)

\* C17: when an entry of a listAppMetadata() response has a platform that is
\* absent or is not a non-empty string, the whole call rejects with
\* invalid-server-response; no metadata value is returned for it.
C17_AbsentPlatformFails ==
    (/\ call.op = "listAppMetadata"
     /\ call.pc = "done"
     /\ call.outcome.ok
     /\ isNonNullObject(call.outcome.data)
     /\ isArray(call.outcome.data.apps)
     /\ \E j \in DOMAIN call.outcome.data.apps.items :
           ~isNonEmptyString(call.outcome.data.apps.items[j].platform)) =>
        /\ call.result = Failed(InvalidServerResponse, 1)
        /\ call.result.value = <<>>

\* The second of two entries lacks its platform; the first is well formed.
C17_Witness ==
    /\ call.op = "listAppMetadata"
    /\ call.pc = "done"
    /\ call.outcome =
          Resolved(ListData(AppsArray(<<ServerEntry(AppId(2), "ios"),
                                        [BaseEntry EXCEPT !.platform = Undefined]>>),
                            Undefined))
    /\ call.result = Failed(InvalidServerResponse, 1)

(***************************************************************************)
(* Properties of failed requests and of pages without entries.             *)
(***************************************************************************)
\* The request of instance i that settles in this step was rejected, or its
\* response failed assertListAppsResponseData.
RequestFailed(i) ==
    PullSettles(i) /\ ~(wire'[i].ok /\ assertListAppsResponseData(wire'[i].data))

\* Every answer instance i received was the server's own page, a rejection, or
\* a response that failed assertListAppsResponseData.
OnlyRequestsFailed(i) ==
    \A n \in DOMAIN answers[i] : answers[i][n].own \/ ~answers[i][n].validated

\* C18: a rejected request, or a response that fails validation as a whole,
\* leaves the instance fetching with the cursor it had; with non-overlapping
\* pulls the next request repeats the failed one, and a walk in which nothing
\* else goes wrong still yields every page once, in order.
C18_FailedRequestKeepsPosition ==
    /\ [][\A i \in DOMAIN iters :
            RequestFailed(i) =>
                /\ iters'[i] = iters[i]
                /\ yielded'[i] = yielded[i]
                /\ last'[i].status = "rejected"]_vars
    /\ [](\A i \in DOMAIN iters :
            (~overlapped[i] /\ OnlyRequestsFailed(i)) =>
                /\ \A n \in DOMAIN answers[i] :
                      (~answers[i][n].validated /\ n + 1 \in DOMAIN reqs[i]) =>
                          reqs[i][n + 1] = reqs[i][n]
                /\ (answers[i] # <<>> /\ ~answers[i][Len(answers[i])].validated) =>
                      iters[i].fetching
                /\ NoPageTwice(i)
                /\ IsPrefix(Batches(i), Handles(iters[i].platform, FullListing))
                /\ ~iters[i].fetching =>
                      /\ Batches(i) = Handles(iters[i].platform, FullListing)
                      /\ Len(yielded[i]) = Len(pages))

\* The request for the second page failed and was repeated with the same cursor;
\* the walk then delivered both pages.
C18_Witness ==
    \E i \in DOMAIN iters :
        /\ Len(pages) = 2
        /\ \A p \in DOMAIN pages : pages[p] # <<>>
        /\ Len(answers[i]) = 3
        /\ answers[i][1].own
        /\ ~answers[i][2].validated
        /\ answers[i][3].own
        /\ reqs[i][2].pageToken = PageToken(2)
        /\ reqs[i][3] = reqs[i][2]
        /\ ~iters[i].fetching
        /\ Batches(i) = Handles(iters[i].platform, FullListing)

\* C19: a pull whose response has no "apps" field yields an empty batch with
\* done=false; with non-overlapping pulls the instance keeps fetching with the
\* response's token when that token is non-empty and is exhausted otherwise;
\* listAppMetadata() on a response without "apps" returns an empty list.
C19_EmptyPageIsABatch ==
    /\ \A i \in DOMAIN iters :
          (wire[i].ok /\ isNonNullObject(wire[i].data) /\ wire[i].data.apps = NoApps) =>
              /\ last[i] = Fulfilled(FALSE, <<>>, 1)
              /\ yielded[i] # <<>>
              /\ yielded[i][Len(yielded[i])].value = <<>>
              /\ (~overlapped[i] /\ pending[i] = <<>>) =>
                    /\ iters[i].fetching = Truthy(wire[i].data.nextPageToken)
                    /\ iters[i].nextPageToken = wire[i].data.nextPageToken
    /\ (/\ call.op = "listAppMetadata"
        /\ call.pc = "done"
        /\ call.outcome.ok
        /\ isNonNullObject(call.outcome.data)
        /\ call.outcome.data.apps = NoApps) =>
          call.result = Fulfilled(FALSE, <<>>, 1)

\* The first of two pages came without "apps" and with a token: an empty batch
\* was yielded and the next pull requested the second page.
C19_Witness ==
    \E i \in DOMAIN iters :
        /\ Len(pages) = 2
        /\ pages[2] # <<>>
        /\ ~overlapped[i]
        /\ wire[i] = Resolved(ListData(NoApps, PageToken(2)))
        /\ last[i] = Fulfilled(FALSE, <<>>, 1)
        /\ yielded[i] = <<[page |-> 1, value |-> <<>>]>>
        /\ iters[i].fetching
        /\ Len(reqs[i]) = 2
        /\ reqs[i][2].pageToken = PageToken(2)

====
